---- MODULE Spec2Model ----
(***************************************************************************)
(* Model of the staged pipeline driver of the tract command line tool      *)
(* (cli/src/params.rs, Parameters::pipeline and its stage! macro).         *)
(*                                                                         *)
(* A run takes the command line (matches), a raw inference model and the   *)
(* optional TensorFlow extensions, and moves the model through the named   *)
(* stages.  Up to two runs are modelled (Runs), the second one starting    *)
(* after the first has returned, so that statements comparing two runs on  *)
(* the same input can be checked.                                          *)
(***************************************************************************)
EXTENDS Integers, Sequences, FiniteSets, TLC

\* ------------------------------------------------------------------ bounds
\* longest --pulse / --concretize-stream-dim argument text that is enumerated
MaxArgLen == 1

\* longest text handed to the NNEF parsers
MaxNnefLen == 5

\* most nodes of a raw model
MaxNodes == 3

\* most --input values
MaxInputArgs == 2

\* most steps of the rule that builds a patch
MaxPatchEdits == 1

\* ------------------------------------------------------------ vocabulary
Runs == {1, 2}

\* Option<T>: None is the empty tuple, Some(x) the one-element tuple
None == << >>
Some(x) == << x >>
IsSome(o) == o # << >>
Unwrap(o) == o[1]

\* sequences
Range(s) == { s[i] : i \in 1..Len(s) }
Last(s) == s[Len(s)]
IsPrefix(s, t) == Len(s) <= Len(t) /\ SubSeq(t, 1, Len(s)) = s

\* characters an argument text is made of
ArgChars == {"0", "1", "a"}

\* the stage names of the stage! invocations, in source order
StageNames ==
  << "load", "analyse", "tf-preproc", "incorporate", "type", "declutter",
     "concretize-stream-dim", "concretize-stream-dim-declutter",
     "pulse", "pulse-to-type", "pulse-declutter", "optimize" >>

StageSet == { StageNames[i] : i \in 1..Len(StageNames) }

\* values of --pass that are enumerated: every stage name and a foreign token
PassTokens == StageSet \cup {"no-such-stage"}

RECURSIVE StringsUpTo(_)
StringsUpTo(n) ==
  IF n = 0 THEN { << >> }
  ELSE LET shorter == StringsUpTo(n - 1)
       IN shorter \cup { Append(s, c) : s \in shorter, c \in ArgChars }

ArgStrings == StringsUpTo(MaxArgLen)

\* ------------------------------------------------------- pure functions
DigitValue(c) == IF c = "0" THEN 0 ELSE IF c = "1" THEN 1 ELSE -1

\* str::parse::<usize>: Ok(n) is Some(n), any error is None.  An empty text
\* and a character that is no digit are errors (the texts enumerated here are
\* too short to exceed usize::MAX, the third error of the parser).
RECURSIVE ParseDigits(_, _)
ParseDigits(s, acc) ==
  IF s = << >> THEN Some(acc)
  ELSE IF DigitValue(Head(s)) < 0 THEN None
  ELSE ParseDigits(Tail(s), acc * 10 + DigitValue(Head(s)))

ParseUsize(s) == IF s = << >> THEN None ELSE ParseDigits(s, 0)

\* matches.value_of(name).map(|s| s.parse::<usize>()).transpose():
\* [ok |-> FALSE] is the Err that `?` returns, otherwise val is the Option
ParseOptArg(arg) ==
  IF ~IsSome(arg) THEN [ok |-> TRUE, val |-> None]
  ELSE IF IsSome(ParseUsize(Unwrap(arg)))
       THEN [ok |-> TRUE, val |-> Some(Unwrap(ParseUsize(Unwrap(arg))))]
       ELSE [ok |-> FALSE, val |-> None]

\* variant: the pulse is looked at before the stream dimension
StopAt_PulseFirst(pass, optimize, csd, pulse) ==
  IF IsSome(pass) THEN Unwrap(pass)
  ELSE IF optimize THEN "optimize"
  ELSE IF IsSome(pulse) THEN "pulse-declutter"
  ELSE IF IsSome(csd) THEN "concretize-stream-dim-declutter"
  ELSE "declutter"

\* the stop-at stage: --pass, or the default chosen from the configuration
StopAt(pass, optimize, csd, pulse) ==
  IF IsSome(pass) THEN Unwrap(pass)
  ELSE IF optimize THEN "optimize"
  ELSE IF IsSome(csd) THEN "concretize-stream-dim-declutter"
  ELSE IF IsSome(pulse) THEN "pulse-declutter"
  ELSE "declutter"

\* ---------------------------------------------------------------- graphs
\* A model (graph) is abstracted to its kind and the list of transformations
\* applied to the raw model, each with its numeric argument.
RawModel == [kind |-> "inference", ops |-> << >>]

\* the stage! invocations of Parameters::pipeline: the slot read, the slot
\* written, the function the block calls and the kind of model it returns
StageDef(name) ==
  CASE name = "load" ->
         [from |-> "inference_model", to |-> "inference_model",
          fn |-> "id", kind |-> "inference"]
    [] name = "analyse" ->
         [from |-> "inference_model", to |-> "inference_model",
          fn |-> "InferenceModel::analyse", kind |-> "inference"]
    [] name = "tf-preproc" ->
         [from |-> "inference_model", to |-> "inference_model",
          fn |-> "TfModelExtensions::preproc", kind |-> "inference"]
    [] name = "incorporate" ->
         [from |-> "inference_model", to |-> "inference_model",
          fn |-> "InferenceModel::incorporate", kind |-> "inference"]
    [] name = "type" ->
         [from |-> "inference_model", to |-> "typed_model",
          fn |-> "InferenceModel::into_typed", kind |-> "typed"]
    [] name = "declutter" ->
         [from |-> "typed_model", to |-> "typed_model",
          fn |-> "TypedModel::declutter", kind |-> "typed"]
    [] name = "concretize-stream-dim" ->
         [from |-> "typed_model", to |-> "typed_model",
          fn |-> "TypedModel::concretize_stream_dim", kind |-> "typed"]
    [] name = "concretize-stream-dim-declutter" ->
         [from |-> "typed_model", to |-> "typed_model",
          fn |-> "TypedModel::declutter", kind |-> "typed"]
    [] name = "pulse" ->
         [from |-> "typed_model", to |-> "pulsed_model",
          fn |-> "PulsedModel::new", kind |-> "pulsed"]
    [] name = "pulse-to-type" ->
         [from |-> "pulsed_model", to |-> "typed_model",
          fn |-> "PulsedModel::into_typed", kind |-> "typed"]
    [] name = "pulse-declutter" ->
         [from |-> "typed_model", to |-> "typed_model",
          fn |-> "TypedModel::declutter", kind |-> "typed"]
    [] name = "optimize" ->
         [from |-> "typed_model", to |-> "typed_model",
          fn |-> "TypedModel::optimize", kind |-> "typed"]

\* the numeric argument the block of a stage passes to its function
BlockArg(name, fail_fast, csd, pulse) ==
  CASE name = "analyse" -> IF fail_fast THEN 1 ELSE 0
    [] name = "concretize-stream-dim" -> Unwrap(csd)
    [] name = "pulse" -> Unwrap(pulse)
    [] OTHER -> 0

\* variant: the transformation is recorded but the kind of the model is kept
BlockOk_KeepKind(name, m, arg) ==
  IF StageDef(name).fn = "id" THEN m
  ELSE [kind |-> m.kind,
        ops |-> Append(m.ops, [fn |-> StageDef(name).fn, arg |-> arg])]

\* what the block of a stage returns on success for the model m
BlockOk(name, m, arg) ==
  IF StageDef(name).fn = "id" THEN m
  ELSE [kind |-> StageDef(name).kind,
        ops |-> Append(m.ops, [fn |-> StageDef(name).fn, arg |-> arg])]

\* the error a failing block returns: the error of the function it called
BlockErr(name) == [kind |-> "TractError", origin |-> StageDef(name).fn]

\* the stage that follows a stage in the body of Parameters::pipeline;
\* "return" is the final Ok(..) after the optimize stage
PipelineBody(name, tf_ext, csd, pulse) ==
  CASE name = "load" -> "analyse"
    [] name = "analyse" -> IF IsSome(tf_ext) THEN "tf-preproc" ELSE "incorporate"
    [] name = "tf-preproc" -> "incorporate"
    [] name = "incorporate" -> "type"
    [] name = "type" -> "declutter"
    [] name = "declutter" ->
         IF IsSome(csd) THEN "concretize-stream-dim"
         ELSE IF IsSome(pulse) THEN "pulse"
         ELSE "optimize"
    [] name = "concretize-stream-dim" -> "concretize-stream-dim-declutter"
    [] name = "concretize-stream-dim-declutter" -> "optimize"
    [] name = "pulse" -> "pulse-to-type"
    [] name = "pulse-to-type" -> "pulse-declutter"
    [] name = "pulse-declutter" -> "optimize"
    [] name = "optimize" -> "return"

\* variant: the stream-dimension concretization is not followed by its declutter
FollowingStage_NoReDeclutter(name, tf_ext, csd, pulse) ==
  IF name = "concretize-stream-dim" THEN "optimize"
  ELSE PipelineBody(name, tf_ext, csd, pulse)

\* variant: `if let Some(pulse)` instead of `else if let Some(pulse)`
FollowingStage_BothBranches(name, tf_ext, csd, pulse) ==
  IF name = "concretize-stream-dim-declutter" /\ IsSome(pulse) THEN "pulse"
  ELSE PipelineBody(name, tf_ext, csd, pulse)

\* variant: the pulsed model is typed again but not decluttered
FollowingStage_NoPulseDeclutter(name, tf_ext, csd, pulse) ==
  IF name = "pulse-to-type" THEN "optimize"
  ELSE PipelineBody(name, tf_ext, csd, pulse)

FollowingStage(name, tf_ext, csd, pulse) == PipelineBody(name, tf_ext, csd, pulse)

\* Arc<T>: the value and its strong count
ArcNew(m) == Some([m |-> m, strong |-> 1])

\* variant: the snapshot clones the Arc instead of the model behind it
LastModel_ArcClone(keep_last, slot) ==
  [last |-> IF keep_last THEN Some(Unwrap(slot).m) ELSE None,
   slot |-> IF keep_last THEN Some([Unwrap(slot) EXCEPT !.strong = @ + 1]) ELSE slot]

\* variant: the snapshot is taken whether or not it is asked for
LastModel_Always(keep_last, slot) == [last |-> Some(Unwrap(slot).m), slot |-> slot]

\* variant: the snapshot is never taken
LastModel_Never(keep_last, slot) == [last |-> None, slot |-> slot]

\* let last_model = if keep_last { Some(Box::new((**from).clone())) } else { None }:
\* a copy of the model itself, the strong count of the Arc is left alone
LastModel(keep_last, slot) ==
  [last |-> IF keep_last THEN Some(Unwrap(slot).m) ELSE None,
   slot |-> slot]

\* Arc::try_unwrap: the value when this is the only strong reference
TryUnwrap(arc) == IF arc.strong = 1 THEN Some(arc.m) ELSE None

\* variant: the comparison is missing from one expansion of the macro
StopHere_NotAtType(stop_at, name) == stop_at = name /\ name # "type"

\* variant: the comparison is missing from the declutter expansion
StopHere_NotAtDeclutter(stop_at, name) == stop_at = name /\ name # "declutter"

\* variant: the stage name is matched against the start of the stop-at name
StopHere_Family(stop_at, name) ==
  \/ stop_at = name
  \/ name = "pulse" /\ stop_at \in {"pulse-to-type", "pulse-declutter"}

\* if stop_at == $name
StopHere(stop_at, name) == stop_at = name

\* variant: the error of the stage is replaced by a fixed message
ModelError_FixedMessage(last_model, e) ==
  [tag |-> "Err", model |-> last_model,
   error |-> [kind |-> "CliError", origin |-> "stage failed"]]

\* Err(ModelError(last_model, e.into()))
ModelError(last_model, e) == [tag |-> "Err", model |-> last_model, error |-> e]

\* the model a slot holds, without its reference count
SlotModel(slot) == IF IsSome(slot) THEN Some(Unwrap(slot).m) ELSE None

\* variant: the pulsed model is not handed back
OkTuple_NoPulsed(to, typed, pulsed) ==
  [tag |-> "Ok", model |-> Unwrap(to).m,
   typed_model |-> SlotModel(typed), pulsed_model |-> None]

\* Ok(($to.clone().unwrap(), typed_model, pulsed_model))
OkTuple(to, typed, pulsed) ==
  [tag |-> "Ok", model |-> Unwrap(to).m,
   typed_model |-> SlotModel(typed), pulsed_model |-> SlotModel(pulsed)]

\* the identity block of the load stage is the only one that cannot fail
BlockCanFail(name) == StageDef(name).fn # "id"

\* ----------------------------------------------------------------- state
VARIABLES
  matches,                \* per run: the command line (clap::ArgMatches)
  tf_model_extensions,    \* per run: Option<TfExt> handed to pipeline
  raw_model,              \* per run: the InferenceModel handed to pipeline
  pc,                     \* per run: position in Parameters::pipeline
  stage,                  \* per run: the stage! invocation reached
  keep_last,              \* per run: matches.is_present("verbose")
  pulse,                  \* per run: Option<usize>
  concretize_stream_dim,  \* per run: Option<usize>
  stop_at,                \* per run: the stage name to stop at
  slots,                  \* per run: inference_model, typed_model, pulsed_model
  last_model,             \* per run: the snapshot taken by the current stage
  in_block,               \* per run: the model moved into the running block
  ret,                    \* per run: the value pipeline returned
  executed,               \* per run: names of the stages whose block was called
  produced,               \* per run: input and output of each completed stage
  oracle                  \* results of the stage functions observed so far

\* the state of the NNEF parser (nnef/src/parser.rs)
VARIABLES
  nnef_input,             \* the text handed to a parser
  nnef_result             \* the IResult the parser returned

\* the raw model of from_clap, as a graph, and the functions that edit it
\* before it is handed to pipeline
VARIABLES
  model,                  \* raw_model: nodes, designated inputs and outputs
  model0,                 \* the raw model as it was loaded
  input_values,           \* the Vec<Option<Arc<Tensor>>> built by inputs
  call                    \* the function called, its arguments and its result

graphVars == << model, model0, input_values, call >>

\* the variables the pipeline driver leaves alone
otherVars == << nnef_input, nnef_result, graphVars >>

vars == << matches, tf_model_extensions, raw_model, pc, stage, keep_last, pulse,
           concretize_stream_dim, stop_at, slots, last_model, in_block, ret,
           executed, produced, oracle, otherVars >>

Matches ==
  [ verbose : BOOLEAN,
    optimize : BOOLEAN,
    analyse_fail_fast : BOOLEAN,
    pass : {None} \cup { Some(t) : t \in PassTokens },
    pulse : {None} \cup { Some(t) : t \in ArgStrings },
    concretize_stream_dim : {None} \cup { Some(t) : t \in ArgStrings } ]

TfExts == { None, Some("TfModelExtensions") }

EmptySlots == [inference_model |-> None, typed_model |-> None, pulsed_model |-> None]

\* the part of the state every initial state shares
InitLocals ==
  /\ raw_model = [r \in Runs |-> RawModel]
  /\ stage = [r \in Runs |-> "load"]
  /\ keep_last = [r \in Runs |-> FALSE]
  /\ pulse = [r \in Runs |-> None]
  /\ concretize_stream_dim = [r \in Runs |-> None]
  /\ stop_at = [r \in Runs |-> ""]
  /\ slots = [r \in Runs |-> EmptySlots]
  /\ last_model = [r \in Runs |-> None]
  /\ in_block = [r \in Runs |-> None]
  /\ ret = [r \in Runs |-> None]
  /\ executed = [r \in Runs |-> << >>]
  /\ produced = [r \in Runs |-> << >>]
  /\ oracle = {}

\* no parser is called
NoResult == [parser |-> "none", ok |-> FALSE, rest |-> << >>, out |-> << >>]
NnefIdle == nnef_input = << >> /\ nnef_result = NoResult

\* no function is called on a graph
NoCall == [fn |-> "none", status |-> "none", args |-> << >>, const_input |-> {}]
EmptyModel == [nodes |-> << >>, inputs |-> << >>, outputs |-> << >>]
GraphIdle ==
  /\ model = EmptyModel
  /\ model0 = EmptyModel
  /\ input_values = << >>
  /\ call = NoCall

\* one call of pipeline
Init ==
  /\ \E m \in Matches : matches = [r \in Runs |-> m]
  /\ \E e \in TfExts : tf_model_extensions = [r \in Runs |-> e]
  /\ pc = [r \in Runs |-> IF r = 1 THEN "start" ELSE "off"]
  /\ InitLocals
  /\ NnefIdle
  /\ GraphIdle

\* two calls of pipeline, one after the other, on the same raw model, the
\* same TF extensions and the same command line but for --pass and --verbose
InitPair ==
  /\ \E m \in Matches :
       \E p \in {m.pass, Some("optimize")}, v \in BOOLEAN :
         matches = [r \in Runs |->
                      IF r = 1 THEN m ELSE [m EXCEPT !.pass = p, !.verbose = v]]
  /\ \E e \in TfExts : tf_model_extensions = [r \in Runs |-> e]
  /\ pc = [r \in Runs |-> "start"]
  /\ InitLocals
  /\ NnefIdle
  /\ GraphIdle

Returned(r) == pc[r] \in {"ok", "err", "panic"}

\* the function results already observed for this function, argument and model
Observed(name, arg, m) ==
  { o \in oracle : o.fn = StageDef(name).fn /\ o.arg = arg /\ o.input = m }

\* ---------------------------------------------------------------- actions
\* pipeline, up to the first stage: the arguments are read and parsed, the
\* raw model is put in the inference slot and the stop-at stage is chosen
Configure(r) ==
  /\ pc[r] = "start"
  /\ r = 2 => Returned(1)
  /\ LET p == ParseOptArg(matches[r].pulse)
         c == ParseOptArg(matches[r].concretize_stream_dim)
     IN /\ keep_last' = [keep_last EXCEPT ![r] = matches[r].verbose]
        /\ IF ~p.ok
           THEN /\ pc' = [pc EXCEPT ![r] = "err"]
                /\ ret' = [ret EXCEPT ![r] = Some(ModelError(None,
                            [kind |-> "ParseIntError", origin |-> "pulse"]))]
                /\ UNCHANGED << pulse, concretize_stream_dim, stop_at, slots >>
           ELSE IF ~c.ok
           THEN /\ pc' = [pc EXCEPT ![r] = "err"]
                /\ ret' = [ret EXCEPT ![r] = Some(ModelError(None,
                            [kind |-> "ParseIntError", origin |-> "concretize_stream_dim"]))]
                /\ pulse' = [pulse EXCEPT ![r] = p.val]
                /\ UNCHANGED << concretize_stream_dim, stop_at, slots >>
           ELSE /\ pc' = [pc EXCEPT ![r] = "stage"]
                /\ pulse' = [pulse EXCEPT ![r] = p.val]
                /\ concretize_stream_dim' = [concretize_stream_dim EXCEPT ![r] = c.val]
                /\ slots' = [slots EXCEPT ![r] =
                      [inference_model |-> ArcNew(raw_model[r]),
                       typed_model |-> None, pulsed_model |-> None]]
                /\ stop_at' = [stop_at EXCEPT ![r] =
                      StopAt(matches[r].pass, matches[r].optimize, c.val, p.val)]
                /\ UNCHANGED ret
  /\ UNCHANGED otherVars
  /\ UNCHANGED << matches, tf_model_extensions, raw_model, stage, last_model,
                  in_block, executed, produced, oracle >>

\* stage!, first half: the snapshot is taken, the slot read is emptied, the
\* Arc is unwrapped and the model is moved into the block.  Unwrapping an
\* empty slot or an Arc that is shared panics.
StageBegin(r) ==
  /\ pc[r] = "stage"
  /\ LET d == StageDef(stage[r])
         held == IsSome(slots[r][d.from])
         snap == IF held THEN LastModel(keep_last[r], slots[r][d.from])
                 ELSE [last |-> None, slot |-> None]
         m == IF held THEN TryUnwrap(Unwrap(snap.slot)) ELSE None
     IN /\ last_model' = [last_model EXCEPT ![r] = snap.last]
        /\ slots' = [slots EXCEPT ![r][d.from] = None]
        /\ IF IsSome(m)
           THEN /\ in_block' = [in_block EXCEPT ![r] = m]
                /\ executed' = [executed EXCEPT ![r] = Append(@, stage[r])]
                /\ pc' = [pc EXCEPT ![r] = "block"]
           ELSE /\ pc' = [pc EXCEPT ![r] = "panic"]
                /\ UNCHANGED << in_block, executed >>
  /\ UNCHANGED otherVars
  /\ UNCHANGED << matches, tf_model_extensions, raw_model, stage, keep_last, pulse,
                  concretize_stream_dim, stop_at, ret, produced, oracle >>

\* stage!, second half when the block returns Ok: the result is stored in
\* the slot written, and the run returns if this is the stop-at stage
StageOk(r) ==
  /\ pc[r] = "block"
  /\ LET d == StageDef(stage[r])
         arg == BlockArg(stage[r], matches[r].analyse_fail_fast,
                         concretize_stream_dim[r], pulse[r])
         m == Unwrap(in_block[r])
         it == BlockOk(stage[r], m, arg)
         stored == [slots[r] EXCEPT ![d.to] = ArcNew(it)]
         next == FollowingStage(stage[r], tf_model_extensions[r],
                                concretize_stream_dim[r], pulse[r])
     IN /\ \A o \in Observed(stage[r], arg, m) : o.ok
        /\ oracle' = oracle \cup {[fn |-> d.fn, arg |-> arg, input |-> m, ok |-> TRUE]}
        /\ slots' = [slots EXCEPT ![r] = stored]
        /\ produced' = [produced EXCEPT ![r] =
                          Append(@, [name |-> stage[r], input |-> m, output |-> it])]
        /\ in_block' = [in_block EXCEPT ![r] = None]
        /\ IF StopHere(stop_at[r], stage[r])
           THEN /\ ret' = [ret EXCEPT ![r] =
                      Some(OkTuple(stored[d.to], stored.typed_model, stored.pulsed_model))]
                /\ pc' = [pc EXCEPT ![r] = "ok"]
                /\ UNCHANGED stage
           ELSE /\ stage' = [stage EXCEPT ![r] = next]
                /\ pc' = [pc EXCEPT ![r] = IF next = "return" THEN "return" ELSE "stage"]
                /\ UNCHANGED ret
  /\ UNCHANGED otherVars
  /\ UNCHANGED << matches, tf_model_extensions, raw_model, keep_last, pulse,
                  concretize_stream_dim, stop_at, last_model, executed >>

\* variant: the error is dropped, the model given to the block is put in the
\* slot written and the run goes on
StageErr_Swallow(r) ==
  /\ pc[r] = "block"
  /\ BlockCanFail(stage[r])
  /\ LET d == StageDef(stage[r])
         arg == BlockArg(stage[r], matches[r].analyse_fail_fast,
                         concretize_stream_dim[r], pulse[r])
         m == Unwrap(in_block[r])
         next == FollowingStage(stage[r], tf_model_extensions[r],
                                concretize_stream_dim[r], pulse[r])
     IN /\ \A o \in Observed(stage[r], arg, m) : ~o.ok
        /\ oracle' = oracle \cup {[fn |-> d.fn, arg |-> arg, input |-> m, ok |-> FALSE]}
        /\ slots' = [slots EXCEPT ![r][d.to] = ArcNew(m)]
        /\ in_block' = [in_block EXCEPT ![r] = None]
        /\ stage' = [stage EXCEPT ![r] = next]
        /\ pc' = [pc EXCEPT ![r] = IF next = "return" THEN "return" ELSE "stage"]
  /\ UNCHANGED otherVars
  /\ UNCHANGED << matches, tf_model_extensions, raw_model, keep_last, pulse,
                  concretize_stream_dim, stop_at, ret, last_model, executed, produced >>

\* stage!, second half when the block returns Err: the run returns the
\* error with the snapshot
StageErr(r) ==
  /\ pc[r] = "block"
  /\ BlockCanFail(stage[r])
  /\ LET d == StageDef(stage[r])
         arg == BlockArg(stage[r], matches[r].analyse_fail_fast,
                         concretize_stream_dim[r], pulse[r])
         m == Unwrap(in_block[r])
     IN /\ \A o \in Observed(stage[r], arg, m) : ~o.ok
        /\ oracle' = oracle \cup {[fn |-> d.fn, arg |-> arg, input |-> m, ok |-> FALSE]}
        /\ ret' = [ret EXCEPT ![r] = Some(ModelError(last_model[r], BlockErr(stage[r])))]
        /\ in_block' = [in_block EXCEPT ![r] = None]
        /\ pc' = [pc EXCEPT ![r] = "err"]
  /\ UNCHANGED otherVars
  /\ UNCHANGED << matches, tf_model_extensions, raw_model, stage, keep_last, pulse,
                  concretize_stream_dim, stop_at, slots, last_model, executed, produced >>

\* the final Ok(..) of pipeline, reached when no executed stage is the
\* stop-at stage
ReturnFinal(r) ==
  /\ pc[r] = "return"
  /\ ret' = [ret EXCEPT ![r] =
        Some(OkTuple(slots[r].typed_model, slots[r].typed_model, slots[r].pulsed_model))]
  /\ pc' = [pc EXCEPT ![r] = "ok"]
  /\ UNCHANGED otherVars
  /\ UNCHANGED << matches, tf_model_extensions, raw_model, stage, keep_last, pulse,
                  concretize_stream_dim, stop_at, slots, last_model, in_block,
                  executed, produced, oracle >>

Next ==
  \/ \E r \in Runs : Configure(r)
  \/ \E r \in Runs : StageBegin(r)
  \/ \E r \in Runs : StageOk(r)
  \/ \E r \in Runs : StageErr(r)
  \/ \E r \in Runs : ReturnFinal(r)

Spec == Init /\ [][Next]_vars

SpecPair == InitPair /\ [][Next]_vars

\* pipeline is straight-line code around the stage functions: a call that
\* can take a step takes it, every stage function being assumed to return
SpecLive == Init /\ [][Next]_vars /\ WF_vars(Next)

\* ------------------------------------------------------------ NNEF parser
\* char::is_alpha and char::is_dec_digit of nom: ASCII letters and digits
Letters ==
  { "a", "b", "c", "d", "e", "f", "g", "h", "i", "j", "k", "l", "m",
    "n", "o", "p", "q", "r", "s", "t", "u", "v", "w", "x", "y", "z",
    "A", "B", "C", "D", "E", "F", "G", "H", "I", "J", "K", "L", "M",
    "N", "O", "P", "Q", "R", "S", "T", "U", "V", "W", "X", "Y", "Z" }
Digits == { "0", "1", "2", "3", "4", "5", "6", "7", "8", "9" }

\* one_of(" \t\n\r")
Spaces == { " ", "\t", "\n", "\r" }

\* none_of("\r\n"): the characters that end a comment
LineEnds == { "\r", "\n" }

\* the characters the texts handed to the parsers are made of
NnefChars == { "a", "1", "_", " ", "#", "\n" }

RECURSIVE TextsUpTo(_)
TextsUpTo(n) ==
  IF n = 0 THEN { << >> }
  ELSE LET shorter == TextsUpTo(n - 1)
       IN shorter \cup { Append(t, c) : t \in shorter, c \in NnefChars }

NnefTexts == TextsUpTo(MaxNnefLen)

\* what is left of i after its longest prefix of characters of a class
RECURSIVE SkipIn(_, _)
SkipIn(i, class) ==
  IF i # << >> /\ Head(i) \in class THEN SkipIn(Tail(i), class) ELSE i

\* what is left of i after its longest prefix of characters outside a class
RECURSIVE SkipNotIn(_, _)
SkipNotIn(i, class) ==
  IF i # << >> /\ Head(i) \notin class THEN SkipNotIn(Tail(i), class) ELSE i

\* the part of i a parser consumed when it left rest
Consumed(i, rest) == SubSeq(i, 1, Len(i) - Len(rest))

\* many0(alt((alphanumeric1, tag("_")))): what is left of i
RECURSIVE IdentifierTail(_)
IdentifierTail(i) ==
  IF i # << >> /\ Head(i) \in Letters \cup Digits
    THEN IdentifierTail(SkipIn(i, Letters \cup Digits))
  ELSE IF i # << >> /\ Head(i) = "_" THEN IdentifierTail(Tail(i))
  ELSE i

\* identifier: recognize(pair(alpha1, many0(alt((alphanumeric1, tag("_"))))))
Identifier(i) ==
  LET after_alpha == SkipIn(i, Letters)
  IN IF after_alpha = i
     THEN [ok |-> FALSE, rest |-> i, out |-> << >>]
     ELSE [ok |-> TRUE, rest |-> IdentifierTail(after_alpha),
           out |-> Consumed(i, IdentifierTail(after_alpha))]

\* variant: a comment goes on over line feeds, up to a carriage return
CommentBody_OverLineFeed(i) == SkipNotIn(i, {"\r"})

\* many0(none_of("\r\n")) after the "#": what is left of i
CommentBody(i) == SkipNotIn(i, LineEnds)

\* space_and_comments: what is left of i; the parser cannot fail
RECURSIVE SpaceAndComments(_)
SpaceAndComments(i) ==
  IF i # << >> /\ Head(i) \in Spaces THEN SpaceAndComments(Tail(i))
  ELSE IF i # << >> /\ Head(i) = "#" THEN SpaceAndComments(CommentBody(Tail(i)))
  ELSE i

\* spaced(identifier) = delimited(space_and_comments, identifier,
\* space_and_comments); at is the position of the identifier in the text of
\* total characters the parsing started with
SpacedIdentifier(i, total) ==
  LET before == SpaceAndComments(i)
      id == Identifier(before)
  IN IF ~id.ok
     THEN [ok |-> FALSE, rest |-> i, out |-> << >>]
     ELSE [ok |-> TRUE, rest |-> SpaceAndComments(id.rest),
           out |-> << [text |-> id.out, at |-> total - Len(before) + 1] >>]

\* the loop of many0 and many1: items are added until the parser fails
RECURSIVE ManySpacedIdentifiers(_, _, _)
ManySpacedIdentifiers(i, acc, total) ==
  LET item == SpacedIdentifier(i, total)
  IN IF ~item.ok THEN [ok |-> TRUE, rest |-> i, out |-> acc]
     ELSE IF Len(item.rest) = Len(i) THEN [ok |-> FALSE, rest |-> i, out |-> << >>]
     ELSE ManySpacedIdentifiers(item.rest, acc \o item.out, total)

\* many1(spaced(identifier)), as used by extension and by the tests
Many1SpacedIdentifier(i) ==
  LET first == SpacedIdentifier(i, Len(i))
  IN IF ~first.ok THEN [ok |-> FALSE, rest |-> i, out |-> << >>]
     ELSE ManySpacedIdentifiers(first.rest, first.out, Len(i))

\* the pipeline is not run
PipelineIdle ==
  /\ matches = [r \in Runs |->
       [verbose |-> FALSE, optimize |-> FALSE, analyse_fail_fast |-> FALSE,
        pass |-> None, pulse |-> None, concretize_stream_dim |-> None]]
  /\ tf_model_extensions = [r \in Runs |-> None]
  /\ pc = [r \in Runs |-> "off"]
  /\ InitLocals

\* a text is handed to one of the parsers
InitNnef ==
  /\ nnef_input \in NnefTexts
  /\ nnef_result = NoResult
  /\ PipelineIdle
  /\ GraphIdle

pipelineVars ==
  << matches, tf_model_extensions, raw_model, pc, stage, keep_last, pulse,
     concretize_stream_dim, stop_at, slots, last_model, in_block, ret,
     executed, produced, oracle >>

\* identifier(nnef_input)
CallIdentifier ==
  /\ nnef_result.parser = "none"
  /\ LET res == Identifier(nnef_input)
     IN nnef_result' = [parser |-> "identifier", ok |-> res.ok, rest |-> res.rest,
                        out |-> IF res.ok THEN << [text |-> res.out, at |-> 1] >>
                                ELSE << >>]
  /\ UNCHANGED << nnef_input, pipelineVars, graphVars >>

\* space_and_comments(nnef_input)
CallSpaceAndComments ==
  /\ nnef_result.parser = "none"
  /\ nnef_result' = [parser |-> "space_and_comments", ok |-> TRUE,
                     rest |-> SpaceAndComments(nnef_input), out |-> << >>]
  /\ UNCHANGED << nnef_input, pipelineVars, graphVars >>

\* many1(spaced(identifier))(nnef_input)
CallSpacedIdentifiers ==
  /\ nnef_result.parser = "none"
  /\ LET res == Many1SpacedIdentifier(nnef_input)
     IN nnef_result' = [parser |-> "many1(spaced(identifier))", ok |-> res.ok,
                        rest |-> res.rest, out |-> res.out]
  /\ UNCHANGED << nnef_input, pipelineVars, graphVars >>

NextNnef ==
  \/ CallIdentifier
  \/ CallSpaceAndComments
  \/ CallSpacedIdentifiers

SpecNnef == InitNnef /\ [][NextNnef]_vars

\* -------------------------------------------------------------- raw model
\* Nodes are identified by their position in the list of nodes and slots by
\* their position in a node, both counted from 1 (from 0 in the program).
OutletId(node, slot) == [node |-> node, slot |-> slot]
InletId(node, slot) == [node |-> node, slot |-> slot]

\* the names the front end gives to the nodes, by node id
NodeNames == << "a", "b", "c", "d", "e", "f", "g", "h" >>

\* the number of output slots of a node: the first node has two, so that
\* slots other than the first are read, the others one
SlotsOf(node) == IF node = 1 THEN 2 ELSE 1

\* the outlets of the first n nodes
OutletsOf(n) == { OutletId(i, sl) : i \in 1..n, sl \in 1..2 } \
                { OutletId(i, 2) : i \in 2..n }

\* outlets in the order of nodes, then slots
OutletLeq(o1, o2) ==
  o1.node < o2.node \/ (o1.node = o2.node /\ o1.slot <= o2.slot)

\* the inputs a node can have: at most two outlets of the nodes before it,
\* possibly twice the same
FanIns(n) ==
  { << >> } \cup { << o >> : o \in OutletsOf(n) }
            \cup { << pr[1], pr[2] >> :
                     pr \in { x \in OutletsOf(n) \X OutletsOf(n) : OutletLeq(x[1], x[2]) } }

\* the inputs of each node, for every acyclic model of n nodes whose first
\* node is a source
RECURSIVE Wirings(_)
Wirings(n) ==
  IF n = 1 THEN { << << >> >> }
  ELSE { Append(w, ins) : w \in Wirings(n - 1), ins \in FanIns(n - 1) }

\* every inlet of a wiring, in the order of nodes and slots
RECURSIVE InletsFrom(_, _)
InletsFrom(w, i) ==
  IF i > Len(w) THEN << >>
  ELSE [p \in 1..Len(w[i]) |-> InletId(i, p)] \o InletsFrom(w, i + 1)

\* the node ids of 1..n that satisfy a test, in increasing order
RECURSIVE IdsWhere(_, _, _)
IdsWhere(i, n, ids) ==
  IF i > n THEN << >>
  ELSE (IF i \in ids THEN << i >> ELSE << >>) \o IdsWhere(i + 1, n, ids)

\* the model a front end builds for a wiring: successors mirror the inputs,
\* the designated inputs are the sources and the designated outputs the
\* nodes nobody reads
ModelOf(w) ==
  LET n == Len(w)
      succ(i, sl) == SelectSeq(InletsFrom(w, 1),
                               LAMBDA x : w[x.node][x.slot] = OutletId(i, sl))
      sources == { i \in 1..n : w[i] = << >> }
      sinks == { i \in 1..n : \A sl \in 1..SlotsOf(i) : succ(i, sl) = << >> }
  IN [ nodes |-> [i \in 1..n |->
                    [name |-> NodeNames[i],
                     op |-> IF w[i] = << >> THEN "Source" ELSE "Op",
                     konst |-> None,
                     inputs |-> w[i],
                     outputs |-> [sl \in 1..SlotsOf(i) |->
                                   [successors |-> succ(i, sl)]]]],
       inputs |-> [j \in 1..Cardinality(sources) |->
                     OutletId(IdsWhere(1, n, sources)[j], 1)],
       outputs |-> [j \in 1..Cardinality(sinks) |->
                     OutletId(IdsWhere(1, n, sinks)[j], 1)] ]

\* the models of every wiring; when nobody reads the first node, either of
\* its outlets can be the designated output
RawModels ==
  LET plain == UNION { { ModelOf(w) : w \in Wirings(n) } : n \in 1..MaxNodes }
  IN plain \cup { [m EXCEPT !.outputs[1].slot = 2] :
                    m \in { x \in plain : x.outputs[1].node = 1 } }

\* model.node_by_name(name): the id, 0 if no node has the name
NodeByName(m, name) ==
  IF \E i \in 1..Len(m.nodes) : m.nodes[i].name = name
  THEN CHOOSE i \in 1..Len(m.nodes) :
         /\ m.nodes[i].name = name
         /\ \A j \in 1..(i - 1) : m.nodes[j].name # name
  ELSE 0

\* variant: only the inlet of slot 0 of the node is taken off its parents
Retain_FirstInletOnly(successors, node) ==
  SelectSeq(successors, LAMBDA su : su # InletId(node, 1))

\* successors.retain(|s| s.node != outlet.node)
Retain(successors, node) == SelectSeq(successors, LAMBDA su : su.node # node)

\* for input in node.inputs.clone() { ..successors.retain(..) }: the edges
\* from the parents of a node to the node are shed, one input at a time
RECURSIVE ShedEdges(_, _, _)
ShedEdges(m, node, ins) ==
  IF ins = << >> THEN m
  ELSE LET input == Head(ins)
       IN ShedEdges(
            [m EXCEPT !.nodes[input.node].outputs[input.slot].successors =
                         Retain(@, node)],
            node, Tail(ins))

\* the body of `if !raw_model.inputs.contains(&outlet)`: the edges are shed,
\* the inputs of the node cleared and the node changed into a source
MakeSource(m, node) ==
  LET shed == ShedEdges(m, node, m.nodes[node].inputs)
  IN [shed EXCEPT !.nodes[node].inputs = << >>, !.nodes[node].op = "Source"]

\* the loop over the --input values of inputs(); ix counts from 1
RECURSIVE InputLoop(_, _, _, _)
InputLoop(m, vals, args, ix) ==
  IF ix > Len(args) THEN [status |-> "ok", model |-> m, input_values |-> vals]
  ELSE
    LET a == args[ix]
        named == IsSome(a.name) /\ Unwrap(a.name) # ""
        id == IF named THEN NodeByName(m, Unwrap(a.name)) ELSE 0
    IN IF named /\ id = 0
         THEN [status |-> "err", model |-> m, input_values |-> vals]
       ELSE IF ~named /\ ix > Len(m.inputs)
         THEN [status |-> "panic", model |-> m, input_values |-> vals]
       ELSE IF ix > Len(vals)
         THEN [status |-> "panic", model |-> m, input_values |-> vals]
       ELSE
         LET outlet == IF named THEN OutletId(id, 1) ELSE m.inputs[ix]
         IN InputLoop(
              IF outlet \notin Range(m.inputs) THEN MakeSource(m, outlet.node) ELSE m,
              [vals EXCEPT ![ix] = a.value], args, ix + 1)

\* a sequence without its i-th element
RemoveAt(sq, i) == SubSeq(sq, 1, i - 1) \o SubSeq(sq, i + 1, Len(sq))

\* the loop over the designated inputs, last one first, that turns the
\* inputs named by --const-input into constants
RECURSIVE ConstLoop(_, _, _, _)
ConstLoop(m, vals, const_inputs, i) ==
  IF i < 1 THEN [status |-> "ok", model |-> m, input_values |-> vals]
  ELSE
    LET input == m.inputs[i]
    IN IF m.nodes[input.node].name \in const_inputs
       THEN IF IsSome(vals[i])
            THEN ConstLoop(
                   [m EXCEPT !.nodes[input.node].op = "Const",
                             !.nodes[input.node].konst = vals[i],
                             !.inputs = RemoveAt(@, i)],
                   [vals EXCEPT ![i] = None], const_inputs, i - 1)
            ELSE [status |-> "err", model |-> m, input_values |-> vals]
       ELSE ConstLoop(m, vals, const_inputs, i - 1)

\* Parameters::inputs, for a command line without input bundle and without
\* ONNX test data: the --input values, then the --const-input names
Inputs(m, args, const_inputs) ==
  LET vals == [i \in 1..Len(m.inputs) |-> None]
      overridden == InputLoop(m, vals, args, 1)
  IN IF overridden.status # "ok" THEN overridden
     ELSE ConstLoop(overridden.model, overridden.input_values, const_inputs,
                    Len(overridden.model.inputs))

\* the --input values that are tried on a model: a node name, a name of no
\* node or no name, with or without a tensor value
InputArgsOf(m) ==
  [ name : {None} \cup { Some(m.nodes[i].name) : i \in 1..Len(m.nodes) }
                  \cup { Some("zz") },
    value : {None, Some("tensor")} ]

InputArgLists(m) ==
  UNION { [1..n -> InputArgsOf(m)] : n \in 0..MaxInputArgs }

\* the value of the ix-th --input, tagged with its position
TagValues(args) ==
  [ix \in 1..Len(args) |->
     [name |-> args[ix].name,
      value |-> IF IsSome(args[ix].value) THEN Some([input |-> ix]) ELSE None]]

\* the --const-input names that are tried: none, or the name of one input
ConstInputsOf(m) ==
  { {} } \cup { { m.nodes[m.inputs[i].node].name } : i \in 1..Len(m.inputs) }

\* a raw model is loaded and one of the functions that edit it is called
InitGraph ==
  /\ model \in RawModels
  /\ model0 = model
  /\ input_values = << >>
  /\ call = NoCall
  /\ PipelineIdle
  /\ NnefIdle

\* inputs(&mut raw_model, ..)
CallInputs ==
  /\ call.fn = "none"
  /\ \E args \in InputArgLists(model), const_inputs \in ConstInputsOf(model) :
       LET res == Inputs(model, TagValues(args), const_inputs)
       IN /\ model' = res.model
          /\ input_values' = res.input_values
          /\ call' = [fn |-> "inputs", status |-> res.status,
                      args |-> TagValues(args), const_input |-> const_inputs]
  /\ UNCHANGED << model0, pipelineVars, nnef_input, nnef_result >>

\* ------------------------------------------------------------------ patch
\* A patch holds its taps (outlets of the target, each standing for a
\* placeholder numbered from 1), its new nodes, whose inputs are numbers of
\* placeholders, and its shunts, from an outlet of the target to the output
\* of a new node.
\* InferenceModelPatch::default()
EmptyPatch == [taps |-> << >>, nodes |-> << >>, shunts |-> << >>]

\* patch.tap_model(&raw_model, outlet): a new placeholder for the outlet
TapModel(patch, outlet) ==
  [patch |-> [patch EXCEPT !.taps = Append(@, outlet)],
   tap |-> Len(patch.taps) + 1]

\* patch.wire_node(name, op, &[tap]): a new node reading placeholders
WireNode(patch, name, op, inputs) ==
  [patch |-> [patch EXCEPT !.nodes =
                Append(@, [name |-> name, op |-> op, inputs |-> inputs])],
   node |-> Len(patch.nodes) + 1]

\* patch.shunt_outside(&raw_model, outlet, by)
ShuntOutside(patch, outlet, by) ==
  [patch EXCEPT !.shunts = Append(@, [outside |-> outlet, by |-> by])]

\* format!("{}-pad", name)
PadName(name) == name \o "-pad"

\* variant: the pad is wired to the input but nothing is shunted to it
PadInput_NoShunt(patch, m, input) ==
  LET tapped == TapModel(patch, input)
  IN WireNode(tapped.patch, PadName(m.nodes[input.node].name), "Pad",
              << tapped.tap >>).patch

\* the body of the loop of kaldi_context for one input: tap, pad, shunt
PadInput(patch, m, input) ==
  LET tapped == TapModel(patch, input)
      wired == WireNode(tapped.patch, PadName(m.nodes[input.node].name), "Pad",
                        << tapped.tap >>)
  IN ShuntOutside(wired.patch, input, wired.node)

\* for input in raw_model.input_outlets()? { .. }
RECURSIVE KaldiContextPatch(_, _, _)
KaldiContextPatch(patch, m, ins) ==
  IF ins = << >> THEN patch
  ELSE KaldiContextPatch(PadInput(patch, m, Head(ins)), m, Tail(ins))

\* the outlet exists in the model
HasOutlet(m, o) ==
  /\ o.node \in 1..Len(m.nodes)
  /\ o.slot \in 1..Len(m.nodes[o.node].outputs)

\* the shunt that replaces an outlet, 0 if none; the last one wins
ShuntOf(p, o) ==
  LET hits == { j \in 1..Len(p.shunts) : p.shunts[j].outside = o }
  IN IF hits = {} THEN 0
     ELSE p.shunts[CHOOSE j \in hits : \A h \in hits : h <= j].by

\* the inputs of every node once the patch is swapped in: the inlets of the
\* target that read a shunted outlet read the new node instead, the new
\* nodes read the outlets their placeholders stand for
PatchedInputs(m, p) ==
  LET n0 == Len(m.nodes)
      moved(o) == IF ShuntOf(p, o) = 0 THEN o ELSE OutletId(n0 + ShuntOf(p, o), 1)
  IN [i \in 1..(n0 + Len(p.nodes)) |->
        IF i <= n0
        THEN [q \in 1..Len(m.nodes[i].inputs) |-> moved(m.nodes[i].inputs[q])]
        ELSE [q \in 1..Len(p.nodes[i - n0].inputs) |->
                p.taps[p.nodes[i - n0].inputs[q]]]]

\* the target with the patch swapped in; successors mirror the inputs and a
\* designated output that was shunted is the new node's output
Patched(m, p) ==
  LET n0 == Len(m.nodes)
      ins == PatchedInputs(m, p)
      succ(i, sl) == SelectSeq(InletsFrom(ins, 1),
                               LAMBDA x : ins[x.node][x.slot] = OutletId(i, sl))
  IN [ nodes |-> [i \in 1..Len(ins) |->
                    IF i <= n0
                    THEN [m.nodes[i] EXCEPT
                            !.inputs = ins[i],
                            !.outputs = [sl \in 1..Len(m.nodes[i].outputs) |->
                                           [successors |-> succ(i, sl)]]]
                    ELSE [name |-> p.nodes[i - n0].name,
                          op |-> p.nodes[i - n0].op,
                          konst |-> None,
                          inputs |-> ins[i],
                          outputs |-> << [successors |-> succ(i, 1)] >>]],
       inputs |-> m.inputs,
       outputs |-> [j \in 1..Len(m.outputs) |->
                      IF ShuntOf(p, m.outputs[j]) = 0 THEN m.outputs[j]
                      ELSE OutletId(n0 + ShuntOf(p, m.outputs[j]), 1)] ]

\* the nodes that the nodes of a set read
Parents(m, ids) ==
  UNION { { m.nodes[i].inputs[q].node : q \in 1..Len(m.nodes[i].inputs) } :
          i \in ids }

\* the nodes a set of nodes reads, directly or through at most k other nodes
RECURSIVE Upstream(_, _, _)
Upstream(m, ids, k) ==
  IF k = 0 THEN ids ELSE Upstream(m, ids \cup Parents(m, ids), k - 1)

\* no node reads its own output, directly or through other nodes
Acyclic(m) ==
  \A i \in 1..Len(m.nodes) : i \notin Upstream(m, Parents(m, {i}), Len(m.nodes))

\* the failure of a patch against a target, "ok" if it has none: a stale
\* outlet, a dangling inlet, or a cycle once swapped in
PatchError(m, p) ==
  IF \/ \E j \in 1..Len(p.taps) : ~HasOutlet(m, p.taps[j])
     \/ \E j \in 1..Len(p.shunts) : ~HasOutlet(m, p.shunts[j].outside)
    THEN "stale"
  ELSE IF \/ \E j \in 1..Len(p.nodes) : \E q \in 1..Len(p.nodes[j].inputs) :
               p.nodes[j].inputs[q] \notin 1..Len(p.taps)
          \/ \E j \in 1..Len(p.shunts) : p.shunts[j].by \notin 1..Len(p.nodes)
    THEN "dangling"
  ELSE IF ~Acyclic(Patched(m, p)) THEN "cycle"
  ELSE "ok"

\* variant: the new nodes are inserted before the references are resolved
Apply_InsertFirst(m, p) ==
  IF PatchError(m, p) = "ok" THEN [status |-> "ok", model |-> Patched(m, p)]
  ELSE [status |-> PatchError(m, p),
        model |-> [m EXCEPT !.nodes = @ \o
                     [j \in 1..Len(p.nodes) |->
                        [name |-> p.nodes[j].name, op |-> p.nodes[j].op,
                         konst |-> None,
                         inputs |-> << >>,
                         outputs |-> << [successors |-> << >>] >>]]]]

\* patch.apply(raw_model): nothing is changed until every reference resolves
Apply(m, p) ==
  IF PatchError(m, p) = "ok" THEN [status |-> "ok", model |-> Patched(m, p)]
  ELSE [status |-> PatchError(m, p), model |-> m]

\* Parameters::kaldi_context
KaldiContext(m) == Apply(m, KaldiContextPatch(EmptyPatch, m, m.inputs))

\* one step of a rewrite rule that builds a patch: an outlet is tapped, a
\* node is wired to the placeholder, or to none, and an outlet may be
\* shunted to the node
Edit(patch, e) ==
  LET tapped == TapModel(patch, e.tap)
      wired == WireNode(tapped.patch, "new", "Op",
                        << IF e.wired THEN tapped.tap ELSE 0 >>)
  IN IF IsSome(e.shunt)
     THEN ShuntOutside(wired.patch, Unwrap(e.shunt), wired.node)
     ELSE wired.patch

RECURSIVE Edits(_, _)
Edits(patch, es) ==
  IF es = << >> THEN patch ELSE Edits(Edit(patch, Head(es)), Tail(es))

\* the steps that are tried on a model: over its outlets and one outlet of a
\* node it does not have
EditsOf(m) ==
  [ tap : OutletsOf(Len(m.nodes) + 1),
    wired : BOOLEAN,
    shunt : {None} \cup { Some(o) : o \in OutletsOf(Len(m.nodes) + 1) } ]

PatchesOf(m) ==
  { Edits(EmptyPatch, es) :
      es \in UNION { [1..n -> EditsOf(m)] : n \in 0..MaxPatchEdits } }

\* Self::kaldi_context(&mut raw_model, left, right)
CallKaldiContext ==
  /\ call.fn = "none"
  /\ LET res == KaldiContext(model)
     IN /\ model' = res.model
        /\ call' = [fn |-> "kaldi_context", status |-> res.status,
                    args |-> << KaldiContextPatch(EmptyPatch, model, model.inputs) >>,
                    const_input |-> {}]
  /\ UNCHANGED << model0, input_values, pipelineVars, nnef_input, nnef_result >>

\* patch.apply(target) for the patch of any rewrite rule
CallApply ==
  /\ call.fn = "none"
  /\ \E p \in PatchesOf(model) :
       LET res == Apply(model, p)
       IN /\ model' = res.model
          /\ call' = [fn |-> "apply", status |-> res.status,
                      args |-> << p >>, const_input |-> {}]
  /\ UNCHANGED << model0, input_values, pipelineVars, nnef_input, nnef_result >>

\* format!("{}-old", output_name)
OldName(name) == name \o "-old"

\* raw_model.add_node(name, op, tvec!(InferenceFact::default())): a node of
\* one output, without inputs
AddNode(m, name, op) ==
  [m EXCEPT !.nodes = Append(@, [name |-> name, op |-> op, konst |-> None,
                                 inputs |-> << >>,
                                 outputs |-> << [successors |-> << >>] >>])]

\* raw_model.add_edge(outlet, inlet), for the next free inlet of a node
AddEdge(m, outlet, inlet) ==
  [m EXCEPT !.nodes[outlet.node].outputs[outlet.slot].successors = Append(@, inlet),
            !.nodes[inlet.node].inputs = Append(@, outlet)]

\* Parameters::kaldi_downsample
KaldiDownsample(m, period) ==
  IF period # 1
  THEN LET outputs == m.outputs
           output_name == m.nodes[outputs[1].node].name
           renamed == [m EXCEPT !.nodes[outputs[1].node].name = OldName(output_name)]
           added == AddNode(renamed, output_name, "Downsample")
           id == Len(added.nodes)
           wired == AddEdge(added, outputs[1], InletId(id, 1))
       IN [wired EXCEPT !.outputs = [outputs EXCEPT ![1].node = id]]
  ELSE m

\* the periods that are tried
Periods == {1, 2, 3}

\* Self::kaldi_downsample(&mut raw_model, sub.parse()?)
CallKaldiDownsample ==
  /\ call.fn = "none"
  /\ \E period \in Periods :
       /\ model' = KaldiDownsample(model, period)
       /\ call' = [fn |-> "kaldi_downsample", status |-> "ok",
                   args |-> << period >>, const_input |-> {}]
  /\ UNCHANGED << model0, input_values, pipelineVars, nnef_input, nnef_result >>

NextGraph ==
  \/ CallInputs
  \/ CallKaldiDownsample
  \/ CallKaldiContext
  \/ CallApply

SpecGraph == InitGraph /\ [][NextGraph]_vars

\* ------------------------------------------------------------ properties
Result(r) == Unwrap(ret[r])

\* the stage names listed as the public vocabulary
PublicStages ==
  { "load", "analyse", "incorporate", "type", "declutter",
    "concretize-stream-dim", "concretize-stream-dim-declutter",
    "pulse", "pulse-to-type", "pulse-declutter", "optimize" }

ConcretizeStages == { "concretize-stream-dim", "concretize-stream-dim-declutter" }
PulseStages == { "pulse", "pulse-to-type", "pulse-declutter" }

\* the optional branches of the stage sequence
Branches ==
  { << >>,
    << "concretize-stream-dim", "concretize-stream-dim-declutter" >>,
    << "pulse", "pulse-to-type", "pulse-declutter" >> }

\* the stage sequence with one of the branches
StageOrder(tf, branch) ==
  << "load", "analyse" >> \o (IF tf THEN << "tf-preproc" >> ELSE << >>)
    \o << "incorporate", "type", "declutter" >> \o branch \o << "optimize" >>

\* a stage failed in run r (the run did not fail on its arguments)
StageFailed(r) == pc[r] = "err" /\ Len(executed[r]) > Len(produced[r])

\* the output of the last successfully completed stage of run r
LastGood(r) == Last(produced[r]).output

\* C1: the stages executed by a run are a prefix of load, analyse,
\* [tf-preproc, only with TF extensions], incorporate, type, declutter, one
\* of the branches or none, optimize: nothing runs out of order or is skipped.
C1_StageOrder ==
  \A r \in Runs :
    \E b \in Branches :
      IsPrefix(executed[r], StageOrder(IsSome(tf_model_extensions[r]), b))

\* a run that went through the ten stages of the pulse branch with TF extensions
C1_Witness ==
  /\ pc[1] = "ok"
  /\ executed[1] = StageOrder(TRUE, << "pulse", "pulse-to-type", "pulse-declutter" >>)

\* C2, as stated: a run with stop-at X, X any public stage name, that does
\* not fail returns the output of stage X and executes no later stage, in
\* every configuration.
C2_Orig ==
  \A r \in Runs :
    (pc[r] = "ok" /\ stop_at[r] \in PublicStages) =>
       /\ Last(executed[r]) = stop_at[r]
       /\ Last(produced[r]).name = stop_at[r]
       /\ Result(r).model = Last(produced[r]).output
       /\ ("optimize" \in Range(executed[r]) => stop_at[r] = "optimize")

\* stage X belongs to the branch the configuration of run r selects
Selected(r, X) ==
  /\ X \in ConcretizeStages => IsSome(concretize_stream_dim[r])
  /\ X \in PulseStages => (~IsSome(concretize_stream_dim[r]) /\ IsSome(pulse[r]))

\* C2, amended: the same, for the public stage names X that belong to the
\* branch the configuration selects.
C2_StopAt ==
  \A r \in Runs :
    (pc[r] = "ok" /\ stop_at[r] \in PublicStages /\ Selected(r, stop_at[r])) =>
       /\ Last(executed[r]) = stop_at[r]
       /\ Last(produced[r]).name = stop_at[r]
       /\ Result(r).model = Last(produced[r]).output
       /\ ("optimize" \in Range(executed[r]) => stop_at[r] = "optimize")

\* a run stopped at type by --pass, with --optimize given as well
C2_Witness ==
  /\ pc[1] = "ok"
  /\ matches[1].pass = Some("type")
  /\ matches[1].optimize
  /\ Result(1).model.kind = "typed"

\* C3, as stated: whenever a stage fails, the error carries the graph as it
\* was right before the failing stage, in every configuration.
C3_Orig ==
  \A r \in Runs :
    StageFailed(r) => Result(r).model = Some(LastGood(r))

\* C3, amended: whenever a stage fails, the error carries the graph as it was
\* right before the failing stage when snapshots are retained (verbose), and
\* no graph otherwise.
C3_Snapshot ==
  \A r \in Runs :
    StageFailed(r) =>
      /\ Result(r).tag = "Err"
      /\ Result(r).model = IF keep_last[r] THEN Some(LastGood(r)) ELSE None

\* the pulse stage failed in a run that retains snapshots
C3_Witness ==
  /\ StageFailed(1)
  /\ keep_last[1]
  /\ Last(executed[1]) = "pulse"
  /\ Result(1).model = Some(LastGood(1))

\* C4: no run executes both a stream-dimension concretization stage and a
\* pulse stage, also when both a stream dimension and a pulse are configured.
C4_BranchesExclusive ==
  \A r \in Runs :
    ~ (/\ Range(executed[r]) \cap ConcretizeStages # {}
       /\ Range(executed[r]) \cap PulseStages # {})

\* both are configured and the run went through optimize
C4_Witness ==
  /\ IsSome(pulse[1])
  /\ IsSome(concretize_stream_dim[1])
  /\ pc[1] = "ok"
  /\ Last(executed[1]) = "optimize"

\* the slots of run r that hold a model
Held(r) == { k \in DOMAIN slots[r] : IsSome(slots[r][k]) }

\* C5: between stages exactly one of the three slots holds a model, through
\* a reference nobody shares, and it is the output of the stage that just
\* completed; while a block runs the slot it read from is empty and the
\* model is owned by the block; unwrapping never panics.
C5_Ownership ==
  \A r \in Runs :
    /\ pc[r] # "panic"
    /\ pc[r] \in {"stage", "return"} =>
         /\ Cardinality(Held(r)) = 1
         /\ \A k \in Held(r) : Unwrap(slots[r][k]).strong = 1
         /\ pc[r] = "stage" => Held(r) = { StageDef(stage[r]).from }
         /\ produced[r] # << >> =>
              /\ Held(r) = { StageDef(Last(produced[r]).name).to }
              /\ \A k \in Held(r) : Unwrap(slots[r][k]).m = LastGood(r)
    /\ pc[r] = "block" =>
         /\ Held(r) = {}
         /\ IsSome(in_block[r])

\* the block of pulse-to-type is running on the pulsed model, snapshot taken
C5_Witness ==
  /\ pc[1] = "block"
  /\ stage[1] = "pulse-to-type"
  /\ IsSome(last_model[1])
  /\ Unwrap(in_block[1]).kind = "pulsed"

\* C6: a run stopped at declutter and a full run (stop-at optimize) on the
\* same input and configuration go through the same stages and the same
\* intermediate graphs up to and including declutter; the stopped run
\* returns the graph the full run holds right after its declutter stage and
\* executes nothing afterwards.
C6_StopAtDeclutter ==
  (/\ pc[1] = "ok" /\ stop_at[1] = "declutter"
   /\ Returned(2) /\ stop_at[2] = "optimize") =>
     /\ Last(executed[1]) = "declutter"
     /\ IsPrefix(produced[1], produced[2])
     /\ IsPrefix(executed[1], executed[2])
     /\ produced[2][Len(produced[1])].name = "declutter"
     /\ Result(1).model = produced[2][Len(produced[1])].output

\* the first run stopped at declutter, the second one went on through the
\* pulse branch and optimize and returned another graph
C6_Witness ==
  /\ pc[1] = "ok" /\ stop_at[1] = "declutter"
  /\ pc[2] = "ok" /\ stop_at[2] = "optimize"
  /\ "pulse" \in Range(executed[2])
  /\ Last(executed[2]) = "optimize"
  /\ Result(1).model # Result(2).model
  /\ Result(1).model = produced[2][Len(produced[1])].output

\* the names a failure value carries
FailureNames(res) == { res.error.kind, res.error.origin }

\* C7, as stated: when a stage fails, the failure value names the failing
\* stage, next to the last good snapshot.
C7_Orig ==
  \A r \in Runs :
    StageFailed(r) =>
      /\ Last(executed[r]) \in FailureNames(Result(r))
      /\ Result(r).model \in { None, Some(LastGood(r)) }

\* C7, amended: when a stage fails, the failure value has two parts, the
\* last good snapshot (if retained) and the error returned by the function
\* the stage called, unchanged; no stage name is part of it.
C7_FailureValue ==
  \A r \in Runs :
    StageFailed(r) =>
      /\ DOMAIN Result(r) = {"tag", "model", "error"}
      /\ Result(r).tag = "Err"
      /\ Result(r).error = [kind |-> "TractError",
                            origin |-> StageDef(Last(executed[r])).fn]
      /\ FailureNames(Result(r)) \cap StageSet = {}
      /\ Result(r).model \in { None, Some(LastGood(r)) }

\* the declutter of the pulse branch failed: the error is the one of
\* TypedModel::declutter, as for the two other declutter stages
C7_Witness ==
  /\ StageFailed(1)
  /\ Last(executed[1]) = "pulse-declutter"
  /\ Result(1).error.origin = "TypedModel::declutter"

\* C8, as stated: only the eleven public stage names can stop the pipeline
\* at a stage.
C8_Orig ==
  \A r \in Runs :
    (pc[r] = "ok" /\ Last(executed[r]) = stop_at[r]) => stop_at[r] \in PublicStages

\* C8, amended: the names that stop the pipeline at a stage are the eleven
\* public ones and tf-preproc: a run returns right after the first completed
\* stage whose name is the stop-at token, and a token that names no executed
\* stage stops nothing, the run then returns after optimize.
C8_StopTokens ==
  \A r \in Runs :
    /\ \A i \in 1..Len(produced[r]) :
         produced[r][i].name = stop_at[r] => (i = Len(produced[r]) /\ pc[r] = "ok")
    /\ pc[r] = "ok" =>
         \/ /\ Last(executed[r]) = stop_at[r]
            /\ stop_at[r] \in PublicStages \cup {"tf-preproc"}
         \/ /\ stop_at[r] \notin Range(executed[r])
            /\ Last(executed[r]) = "optimize"

\* a run stopped at tf-preproc by --pass tf-preproc
C8_Witness ==
  /\ pc[1] = "ok"
  /\ stop_at[1] = "tf-preproc"
  /\ Last(executed[1]) = "tf-preproc"
  /\ Len(executed[1]) = 3

\* the index at which stage X completed in run r, 0 if it did not
CompletedAt(r, X) ==
  IF \E i \in 1..Len(produced[r]) : produced[r][i].name = X
  THEN CHOOSE i \in 1..Len(produced[r]) : produced[r][i].name = X
  ELSE 0

\* C9, as stated: every run that completes concretize-stream-dim and
\* returns a model has run concretize-stream-dim-declutter after it, and the
\* last transformation of the model returned is not the concretization.
C9_Orig ==
  \A r \in Runs :
    (pc[r] = "ok" /\ CompletedAt(r, "concretize-stream-dim") > 0) =>
       /\ CompletedAt(r, "concretize-stream-dim-declutter")
            = CompletedAt(r, "concretize-stream-dim") + 1
       /\ Last(Result(r).model.ops).fn # "TypedModel::concretize_stream_dim"

\* C9, amended: the same for every run whose stop-at stage is not
\* concretize-stream-dim itself.
C9_ReDeclutter ==
  \A r \in Runs :
    (/\ pc[r] = "ok" /\ CompletedAt(r, "concretize-stream-dim") > 0
     /\ stop_at[r] # "concretize-stream-dim") =>
       /\ CompletedAt(r, "concretize-stream-dim-declutter")
            = CompletedAt(r, "concretize-stream-dim") + 1
       /\ Last(Result(r).model.ops).fn # "TypedModel::concretize_stream_dim"

\* a run with a stream dimension and no --pass stopped at the default stage
C9_Witness ==
  /\ pc[1] = "ok"
  /\ ~IsSome(matches[1].pass)
  /\ Last(executed[1]) = "concretize-stream-dim-declutter"
  /\ Last(Result(1).model.ops).fn = "TypedModel::declutter"

\* C10: when optimize executes in a run that executed pulse, the stages
\* pulse, pulse-to-type, pulse-declutter come right before it in this order,
\* and the model optimize receives is the typed, decluttered one.
C10_PulseBeforeOptimize ==
  \A r \in Runs :
    ("optimize" \in Range(executed[r]) /\ "pulse" \in Range(executed[r])) =>
       /\ Len(executed[r]) >= 4
       /\ SubSeq(executed[r], Len(executed[r]) - 3, Len(executed[r]))
            = << "pulse", "pulse-to-type", "pulse-declutter", "optimize" >>
       /\ (pc[r] = "block" /\ stage[r] = "optimize") =>
            LET m == Unwrap(in_block[r])
            IN /\ m.kind = "typed"
               /\ Len(m.ops) >= 3
               /\ m.ops[Len(m.ops)].fn = "TypedModel::declutter"
               /\ m.ops[Len(m.ops) - 1].fn = "PulsedModel::into_typed"
               /\ m.ops[Len(m.ops) - 2].fn = "PulsedModel::new"

\* the block of optimize is running in a run that went through the pulse stages
C10_Witness ==
  /\ pc[1] = "block"
  /\ stage[1] = "optimize"
  /\ "pulse" \in Range(executed[1])

\* the strictness of the three kinds of model
KindRank(kind) ==
  CASE kind = "inference" -> 1 [] kind = "typed" -> 2 [] kind = "pulsed" -> 3

\* the kind of model a slot of the driver holds
SlotKind(slot) ==
  CASE slot = "inference_model" -> "inference"
    [] slot = "typed_model" -> "typed"
    [] slot = "pulsed_model" -> "pulsed"

\* C11, as stated: every stage produces a model of the same or a stricter
\* kind than the one it consumed (inference < typed < pulsed).
C11_Orig ==
  \A r \in Runs :
    \A i \in 1..Len(produced[r]) :
      KindRank(produced[r][i].output.kind) >= KindRank(produced[r][i].input.kind)

\* C11, amended: every stage but pulse-to-type produces a model of the same
\* or a stricter kind than the one it consumed; pulse-to-type consumes the
\* pulsed model and produces a typed one.  Each model is of the kind of the
\* slot it is read from and written to.
C11_Kinds ==
  \A r \in Runs :
    \A i \in 1..Len(produced[r]) :
      LET p == produced[r][i]
      IN /\ p.input.kind = SlotKind(StageDef(p.name).from)
         /\ p.output.kind = SlotKind(StageDef(p.name).to)
         /\ p.name # "pulse-to-type" =>
              KindRank(p.output.kind) >= KindRank(p.input.kind)
         /\ p.name = "pulse-to-type" =>
              (p.input.kind = "pulsed" /\ p.output.kind = "typed")

\* a run went from the pulsed model back to a typed one and on to optimize
C11_Witness ==
  /\ pc[1] = "ok"
  /\ Last(executed[1]) = "optimize"
  /\ \E i \in 1..Len(produced[1]) :
       /\ produced[1][i].name = "pulse-to-type"
       /\ produced[1][i].input.kind = "pulsed"
       /\ produced[1][i].output.kind = "typed"

\* C14, as stated: the pulse and the stream dimension that reach the pulse
\* and concretize-stream-dim stages are positive, a configured 0 is rejected.
C14_Positive ==
  \A r \in Runs :
    /\ "pulse" \in Range(executed[r]) => Unwrap(pulse[r]) > 0
    /\ "concretize-stream-dim" \in Range(executed[r]) =>
         Unwrap(concretize_stream_dim[r]) > 0
    /\ (\/ matches[r].pulse = Some(<< "0" >>)
        \/ matches[r].concretize_stream_dim = Some(<< "0" >>)) =>
         executed[r] = << >>

\* the stages of run r that ran to completion are its executed stages, but
\* for the last one while it runs or after it failed
CompletedNames(r) == [i \in 1..Len(produced[r]) |-> produced[r][i].name]

\* C17: once a stage fails the run executes no further stage and ends with
\* an error: every executed stage but the last one completed, a run whose
\* last stage did not complete is in that stage or has returned an error,
\* and a run that returned a model completed every stage it executed.
C17_FailStops ==
  \A r \in Runs :
    /\ IsPrefix(CompletedNames(r), executed[r])
    /\ Len(executed[r]) <= Len(produced[r]) + 1
    /\ Len(executed[r]) > Len(produced[r]) =>
         \/ pc[r] = "block"
         \/ pc[r] = "err" /\ Result(r).tag = "Err"
    /\ pc[r] = "ok" =>
         (Result(r).tag = "Ok" /\ Len(executed[r]) = Len(produced[r]))

\* the type stage failed after three completed stages
C17_Witness ==
  /\ pc[1] = "err"
  /\ executed[1] = << "load", "analyse", "incorporate", "type" >>
  /\ Len(produced[1]) = 3
  /\ Result(1).tag = "Err"

\* C18: when stage S fails, the error carries the model that was moved into
\* the block of S if snapshots are retained (verbose), and no model if not.
C18_SnapshotIsInput ==
  [][\A r \in Runs :
       (pc[r] = "block" /\ pc'[r] = "err") =>
          /\ keep_last[r] = matches[r].verbose
          /\ keep_last[r] => ret'[r][1].model = in_block[r]
          /\ ~keep_last[r] => ret'[r][1].model = None]_vars

\* optimize failed in a run with snapshots: the error carries the model
\* decluttered after pulsing, not an earlier one
C18_Witness ==
  /\ StageFailed(1)
  /\ matches[1].verbose
  /\ Last(executed[1]) = "optimize"
  /\ "pulse" \in Range(executed[1])
  /\ Result(1).model = Some(LastGood(1))
  /\ Last(LastGood(1).ops).fn = "TypedModel::declutter"

\* the default stop-at stage, as documented
DefaultStopAt(optimize, has_dim, has_pulse) ==
  IF optimize THEN "optimize"
  ELSE IF has_dim THEN "concretize-stream-dim-declutter"
  ELSE IF has_pulse THEN "pulse-declutter"
  ELSE "declutter"

\* run r has read its arguments and chosen its stop-at stage
Configured(r) == pc[r] \in {"stage", "block", "return", "ok"} \/ StageFailed(r)

\* C19: without --pass the stop-at stage is optimize if --optimize is given,
\* else concretize-stream-dim-declutter with a stream dimension, else
\* pulse-declutter with a pulse, else declutter; it names a stage of the
\* selected branch, a run that returns a model returns it at that stage, and
\* without --optimize the optimize stage never executes.
C19_DefaultStopAt ==
  \A r \in Runs :
    (Configured(r) /\ ~IsSome(matches[r].pass)) =>
       /\ stop_at[r] = DefaultStopAt(matches[r].optimize,
                                     IsSome(matches[r].concretize_stream_dim),
                                     IsSome(matches[r].pulse))
       /\ Selected(r, stop_at[r])
       /\ pc[r] = "ok" => Last(executed[r]) = stop_at[r]
       /\ ~matches[r].optimize => "optimize" \notin Range(executed[r])

\* both a pulse and a stream dimension are configured, no --pass and no
\* --optimize: the run stopped after the declutter of the concretize branch
C19_Witness ==
  /\ pc[1] = "ok"
  /\ ~IsSome(matches[1].pass) /\ ~matches[1].optimize
  /\ IsSome(pulse[1]) /\ IsSome(concretize_stream_dim[1])
  /\ Last(executed[1]) = "concretize-stream-dim-declutter"

\* the stages that write the typed slot
TypedProducers ==
  { "type", "declutter", "concretize-stream-dim",
    "concretize-stream-dim-declutter", "pulse-to-type", "pulse-declutter",
    "optimize" }

\* C20: on a successful return the primary model is the output of the last
\* executed stage; the typed model is returned iff that stage produced a
\* typed model and is then the primary model; the pulsed model is returned
\* iff that stage is pulse.
C20_ReturnedSlots ==
  \A r \in Runs :
    pc[r] = "ok" =>
      /\ Last(produced[r]).name = Last(executed[r])
      /\ Result(r).model = Last(produced[r]).output
      /\ IsSome(Result(r).typed_model) <=> Last(executed[r]) \in TypedProducers
      /\ IsSome(Result(r).typed_model) =>
           Result(r).typed_model = Some(Result(r).model)
      /\ IsSome(Result(r).pulsed_model) <=> Last(executed[r]) = "pulse"
      /\ IsSome(Result(r).pulsed_model) =>
           Result(r).pulsed_model = Some(Result(r).model)

\* a run stopped at pulse: the pulsed model is returned, the typed one is not
C20_Witness ==
  /\ pc[1] = "ok"
  /\ Last(executed[1]) = "pulse"
  /\ IsSome(Result(1).pulsed_model)
  /\ ~IsSome(Result(1).typed_model)

\* the characters of identifiers
IdentChars == Letters \cup Digits \cup {"_"}

\* the identifiers as documented: not empty, made of _, letters and digits,
\* not starting with a digit
IsDocumentedIdentifier(t) ==
  /\ t # << >>
  /\ \A k \in 1..Len(t) : t[k] \in IdentChars
  /\ t[1] \notin Digits

\* C15, as stated: identifier accepts exactly the documented identifiers
\* (it succeeds and consumes the whole text exactly for these) and fails on
\* every text that starts with a digit.
C15_Identifier ==
  nnef_result.parser = "identifier" =>
    /\ (nnef_result.ok /\ nnef_result.rest = << >>)
         <=> IsDocumentedIdentifier(nnef_input)
    /\ (nnef_input # << >> /\ nnef_input[1] \in Digits) => ~nnef_result.ok

\* position k of text t is inside a comment: a "#" comes before it, or at
\* it, on the same line
InComment(t, k) ==
  \E q \in 1..k :
    /\ t[q] = "#"
    /\ \A j \in q..k : t[j] \notin LineEnds

\* an identifier starts at position k of text t, outside of any comment
TokenStartsAt(t, k) ==
  /\ t[k] \in Letters
  /\ ~InComment(t, k)
  /\ k > 1 => t[k - 1] \notin IdentChars

\* C16: spaced(p) skips the white space and the comments around p, a comment
\* running from "#" to the end of its line or of the text.  What
\* space_and_comments consumes is white space and comments only, and it
\* stops at the first character that is neither; no item returned by
\* many1(spaced(identifier)) starts inside a comment; what is left over does
\* not start with white space or a comment; and when the whole text is
\* consumed the items are exactly the identifiers outside of comments, in
\* particular those that start the line after a comment.
C16_Spaced ==
  /\ nnef_result.parser = "space_and_comments" =>
       LET n == Len(nnef_input) - Len(nnef_result.rest)
       IN /\ nnef_result.ok
          /\ nnef_result.rest = SubSeq(nnef_input, n + 1, Len(nnef_input))
          /\ \A k \in 1..n : nnef_input[k] \in Spaces \/ InComment(nnef_input, k)
          /\ nnef_result.rest # << >> =>
               Head(nnef_result.rest) \notin Spaces \cup {"#"}
  /\ (nnef_result.parser = "many1(spaced(identifier))" /\ nnef_result.ok) =>
       /\ nnef_result.out # << >>
       /\ \A n \in 1..Len(nnef_result.out) :
            LET item == nnef_result.out[n]
            IN /\ item.at \in 1..Len(nnef_input)
               /\ ~InComment(nnef_input, item.at)
               /\ item.text = SubSeq(nnef_input, item.at, item.at + Len(item.text) - 1)
               /\ IsDocumentedIdentifier(item.text)
       /\ nnef_result.rest # << >> =>
            Head(nnef_result.rest) \notin Spaces \cup {"#"} \cup Letters
       /\ nnef_result.rest = << >> =>
            { nnef_result.out[n].at : n \in 1..Len(nnef_result.out) }
              = { k \in 1..Len(nnef_input) : TokenStartsAt(nnef_input, k) }

\* "a#a\na": the identifier inside the comment is skipped, the one on the
\* next line is returned
C16_Witness ==
  /\ nnef_input = << "a", "#", "a", "\n", "a" >>
  /\ nnef_result.parser = "many1(spaced(identifier))"
  /\ nnef_result.ok
  /\ nnef_result.rest = << >>
  /\ nnef_result.out = << [text |-> << "a" >>, at |-> 1], [text |-> << "a" >>, at |-> 5] >>


\* every inlet of a node's inputs names an existing output slot that lists the
\* inlet as a successor exactly once
InputsHaveSuccessors(m) ==
  \A i \in 1..Len(m.nodes) : \A p \in 1..Len(m.nodes[i].inputs) :
    LET o == m.nodes[i].inputs[p]
    IN /\ o.node \in 1..Len(m.nodes)
       /\ o.slot \in 1..Len(m.nodes[o.node].outputs)
       /\ Len(SelectSeq(m.nodes[o.node].outputs[o.slot].successors,
                        LAMBDA su : su = InletId(i, p))) = 1

\* every successor of an output slot is an inlet of an existing node whose
\* input is that output slot
SuccessorsAreInputs(m) ==
  \A i \in 1..Len(m.nodes) : \A sl \in 1..Len(m.nodes[i].outputs) :
    \A q \in 1..Len(m.nodes[i].outputs[sl].successors) :
      LET su == m.nodes[i].outputs[sl].successors[q]
      IN /\ su.node \in 1..Len(m.nodes)
         /\ su.slot \in 1..Len(m.nodes[su.node].inputs)
         /\ m.nodes[su.node].inputs[su.slot] = OutletId(i, sl)

EdgeConsistent(m) == InputsHaveSuccessors(m) /\ SuccessorsAreInputs(m)

\* the nodes that the --input values of the call turned into sources: the
\* named nodes whose first outlet was not a designated input
Converted ==
  { id \in 1..Len(model0.nodes) :
      /\ OutletId(id, 1) \notin Range(model0.inputs)
      /\ \E ix \in 1..Len(call.args) :
           call.args[ix].name = Some(model0.nodes[id].name) }

\* C13: after inputs() has turned nodes into sources, the inputs of the nodes
\* and the successors of the output slots mirror each other, no output slot
\* lists a converted node as a successor and a converted node has no inputs.
C13_EdgeConsistency ==
  (call.fn = "inputs" /\ call.status = "ok") =>
    /\ EdgeConsistent(model)
    /\ \A id \in Converted :
         /\ model.nodes[id].inputs = << >>
         /\ model.nodes[id].op = "Source"
         /\ \A i \in 1..Len(model.nodes) : \A sl \in 1..Len(model.nodes[i].outputs) :
              \A q \in 1..Len(model.nodes[i].outputs[sl].successors) :
                model.nodes[i].outputs[sl].successors[q].node # id

\* a node that read the same parent twice and fed another node was converted
C13_Witness ==
  /\ call.fn = "inputs"
  /\ call.status = "ok"
  /\ \E id \in Converted :
       /\ Len(model0.nodes[id].inputs) = 2
       /\ model0.nodes[id].inputs[1].node = model0.nodes[id].inputs[2].node
       /\ \E sl \in 1..Len(model.nodes[id].outputs) :
            model.nodes[id].outputs[sl].successors # << >>

\* a patch was applied: by kaldi_context or for a rewrite rule
Applied == call.fn \in {"apply", "kaldi_context"}

\* C12: when the application of a patch fails, the target is the graph it
\* was before the call: no node was added and no edge rewired.
C12_PatchAtomic ==
  (Applied /\ call.status # "ok") =>
    /\ model = model0
    /\ \A i \in 1..Len(model.nodes) : model.nodes[i].op # "Pad"

\* a patch that adds a node and shunts an outlet was rejected for the cycle
\* it would make
C12_Witness ==
  /\ call.fn = "apply"
  /\ call.status = "cycle"
  /\ call.args[1].nodes # << >>
  /\ call.args[1].shunts # << >>
  /\ EdgeConsistent(model)

\* the outlet the ix-th --input value of the call is for: the first outlet
\* of the node it names, else the designated input of the same position
\* (no outlet when there is no such node or input)
Addressed(ix) ==
  LET a == call.args[ix]
  IN IF IsSome(a.name) /\ Unwrap(a.name) # ""
     THEN OutletId(NodeByName(model0, Unwrap(a.name)), 1)
     ELSE IF ix <= Len(model0.inputs) THEN model0.inputs[ix]
     ELSE OutletId(0, 0)

\* C21: after inputs() succeeds, input_values has one entry per designated
\* input and a present entry i is the value supplied for the i-th designated
\* input.
C21_InputValues ==
  (call.fn = "inputs" /\ call.status = "ok") =>
    /\ Len(input_values) = Len(model.inputs)
    /\ \A i \in 1..Len(input_values) :
         IsSome(input_values[i]) =>
           \E ix \in 1..Len(call.args) :
             /\ input_values[i] = Some([input |-> ix])
             /\ i <= Len(model.inputs)
             /\ Addressed(ix) = model.inputs[i]

\* the values the call supplied for an outlet
SuppliedFor(o) ==
  { call.args[ix].value : ix \in { j \in 1..Len(call.args) :
                                     Addressed(j) = o /\ IsSome(call.args[j].value) } }

\* the positions of the designated inputs that --const-input names
ConstNamed ==
  { i \in 1..Len(model0.inputs) :
      model0.nodes[model0.inputs[i].node].name \in call.const_input }

\* C22: when every input named in const_input has a value, a successful
\* inputs() leaves the designated inputs that are not named, in their order,
\* and every named one is a constant holding its value; when a named input
\* has no value the call fails.
C22_ConstInputs ==
  (call.fn = "inputs") =>
    IF \A i \in ConstNamed : SuppliedFor(model0.inputs[i]) # {}
    THEN (call.status = "ok") =>
           /\ model.inputs = SelectSeq(model0.inputs,
                LAMBDA o : model0.nodes[o.node].name \notin call.const_input)
           /\ \A i \in ConstNamed :
                /\ model.nodes[model0.inputs[i].node].op = "Const"
                /\ model.nodes[model0.inputs[i].node].konst
                     \in SuppliedFor(model0.inputs[i])
    ELSE call.status # "ok"

\* the nodes added by the call that carry the pad name of an input
PadsOf(input) ==
  { i \in (Len(model0.nodes) + 1)..Len(model.nodes) :
      model.nodes[i].name = PadName(model0.nodes[input.node].name) }

C24_KaldiDownsample ==
  (call.fn = "kaldi_downsample") =>
    IF call.args[1] = 1 THEN model = model0
    ELSE LET old == model0.outputs[1]
             id == Len(model0.nodes) + 1
         IN /\ Len(model.nodes) = id
            /\ Len(model.outputs) = Len(model0.outputs)
            /\ model.outputs[1].node = id
            /\ model.nodes[id].name = model0.nodes[old.node].name
            /\ model.nodes[id].op = "Downsample"
            /\ model.nodes[id].inputs = << old >>
            /\ model.nodes[old.node].name = OldName(model0.nodes[old.node].name)
            /\ \A j \in 2..Len(model0.outputs) : model.outputs[j] = model0.outputs[j]
            /\ \A j \in 1..Len(model.outputs) : HasOutlet(model, model.outputs[j])

\* C25: a run executes each stage at most once and at most ten stages, it
\* ends, and when it has ended it has returned either a model or an error.
C25_Terminates ==
  /\ [](\A r \in Runs :
          /\ \A i \in 1..Len(executed[r]) : \A j \in 1..Len(executed[r]) :
               executed[r][i] = executed[r][j] => i = j
          /\ Len(executed[r]) <= 10
          /\ Returned(r) =>
               /\ pc[r] \in {"ok", "err"}
               /\ IsSome(ret[r])
               /\ Result(r).tag = "Ok" <=> pc[r] = "ok"
               /\ Result(r).tag = "Err" <=> pc[r] = "err")
  /\ <>[](Returned(1) /\ ~ENABLED Next)

\* a run with TF extensions and a pulse has returned a model after all of
\* its ten stages
C25_Witness ==
  /\ pc[1] = "ok"
  /\ Len(executed[1]) = 10
  /\ Result(1).tag = "Ok"

\* the two runs have the same command line but for --verbose, which one has
\* and the other has not
VerboseOnly ==
  /\ matches[2] = [matches[1] EXCEPT !.verbose = matches[2].verbose]
  /\ matches[1].verbose # matches[2].verbose

\* C26: two runs that differ only in snapshot retention execute the same
\* stages in the same order with the same graphs, both succeed or both fail
\* at the same stage with the same error, return equal models on success, and
\* on a failed stage the error carries a snapshot in the retaining run only.
C26_SnapshotNoInfluence ==
  (Returned(1) /\ Returned(2) /\ VerboseOnly) =>
    /\ executed[1] = executed[2]
    /\ produced[1] = produced[2]
    /\ pc[1] = pc[2]
    /\ pc[1] \in {"ok", "err"}
    /\ pc[1] = "ok" => Result(1) = Result(2)
    /\ pc[1] = "err" =>
         /\ Result(1).error = Result(2).error
         /\ \A r \in Runs :
              IsSome(Result(r).model) <=> (matches[r].verbose /\ StageFailed(r))

\* both runs failed at pulse-to-type after the same stages, and only the
\* second one carries a snapshot
C26_Witness ==
  /\ VerboseOnly
  /\ StageFailed(1) /\ StageFailed(2)
  /\ Last(executed[1]) = "pulse-to-type" /\ Last(executed[2]) = "pulse-to-type"
  /\ ~IsSome(Result(1).model)
  /\ IsSome(Result(2).model)
====
